---- MODULE Spec2Model ----
(***************************************************************************)
(* A model of excel_xmlwriter (src/src/lib.rs): the XMLWriter struct, its  *)
(* ten writing methods and the two escaping functions.                     *)
(*                                                                         *)
(* A string is a sequence of one-character strings, so that a character    *)
(* of the output can be inspected.  The file the writer borrows is the     *)
(* sequence of characters written to it so far.                            *)
(***************************************************************************)
EXTENDS Integers, Sequences, FiniteSets, TLC

VARIABLES
    sink,       \* the content of the File behind XMLWriter.xmlfile
    outcome,    \* how the last method call ended: "none", "ok" (returned ()), "panic"
    before,     \* history: the content of the file when the last call began
    fault,      \* history: the write fault the environment injected in the last call
    log,        \* history: the calls made on this writer, in order
    esc_fn,     \* escaper harness: which escaping function was applied ("none" before)
    esc_in,     \* escaper harness: the input string
    esc_out     \* escaper harness: the string returned

vars == <<sink, outcome, before, fault, log, esc_fn, esc_in, esc_out>>
wvars == <<sink, outcome, before, fault, log>>
escvars == <<esc_fn, esc_in, esc_out>>

(***************************************************************************)
(* Bounds of the model.                                                    *)
(***************************************************************************)
\* the longest string handed to an escaping function (SpecEsc)
MaxLen == 3
\* the number of calls made on one writer (Spec)
MaxCalls == 2
\* the longest attribute list of a call (SpecCall)
MaxAttrs == 2
\* the longest text, formula or markup argument of a call (SpecCall)
MaxText == 2
\* indexes and whole numbers 0..MaxIndex are passed to the cell writers
MaxIndex == 12

\* a fault value: every byte of the call was accepted by the file
NoFault == -1

(***************************************************************************)
(* Strings of bounded length over a set of characters.                     *)
(***************************************************************************)
StringsUpTo(chars, n) == UNION {[1..m -> chars] : m \in 0..n}

(***************************************************************************)
(* The escaping functions, lib.rs 274-292.                                 *)
(***************************************************************************)
\* str::replace(from: char, to: &str): one pass from the left, every match
\* of the character replaced, the replacement text not scanned again.
RECURSIVE replace(_, _, _)
replace(s, from, to) ==
    IF s = <<>> THEN <<>>
    ELSE (IF Head(s) = from THEN to ELSE <<Head(s)>>) \o replace(Tail(s), from, to)

\* a plausible slip: the ampersand replaced last instead of first
escape_attributes_amp_last(attribute) ==
    replace(replace(replace(replace(replace(attribute,
        "\"", <<"&", "q", "u", "o", "t", ";">>),
        "<", <<"&", "l", "t", ";">>),
        ">", <<"&", "g", "t", ";">>),
        "\n", <<"&", "#", "x", "A", ";">>),
        "&", <<"&", "a", "m", "p", ";">>)

escape_attributes(attribute) ==
    replace(replace(replace(replace(replace(attribute,
        "&", <<"&", "a", "m", "p", ";">>),
        "\"", <<"&", "q", "u", "o", "t", ";">>),
        "<", <<"&", "l", "t", ";">>),
        ">", <<"&", "g", "t", ";">>),
        "\n", <<"&", "#", "x", "A", ";">>)

\* a plausible slip: a generic XML escaper used for element content
escape_data_generic(attribute) ==
    replace(replace(replace(replace(replace(attribute,
        "&", <<"&", "a", "m", "p", ";">>),
        "\"", <<"&", "q", "u", "o", "t", ";">>),
        "<", <<"&", "l", "t", ";">>),
        ">", <<"&", "g", "t", ";">>),
        "\n", <<"&", "#", "x", "A", ";">>)

escape_data(attribute) ==
    replace(replace(replace(attribute,
        "&", <<"&", "a", "m", "p", ";">>),
        "<", <<"&", "l", "t", ";">>),
        ">", <<"&", "g", "t", ";">>)

(***************************************************************************)
(* Formatting of the arguments, as write!'s {} does it.                    *)
(***************************************************************************)
DigitChar(d) == <<"0", "1", "2", "3", "4", "5", "6", "7", "8", "9">>[d + 1]

\* Display for u32: the decimal digits, most significant first.
RECURSIVE fmt_u32(_)
fmt_u32(n) ==
    IF n < 10 THEN <<DigitChar(n)>>
    ELSE fmt_u32(n \div 10) \o <<DigitChar(n % 10)>>

\* An f64 is modelled by its shortest decimal form: a sign, a whole part and
\* the fraction digits (none for a whole number).  `n as f64` for an index n:
F64Of(n) == [neg |-> FALSE, int |-> n, frac |-> <<>>]

\* Display for f64: no fraction and no point for a whole number.
fmt_f64(x) ==
    (IF x.neg THEN <<"-">> ELSE <<>>) \o fmt_u32(x.int)
        \o (IF x.frac = <<>> THEN <<>> ELSE <<".">> \o x.frac)

\* a plausible slip: each pair put in front of the string built so far
RECURSIVE attribute_str_reversed(_)
attribute_str_reversed(attributes) ==
    IF attributes = <<>> THEN <<>>
    ELSE attribute_str_reversed(Tail(attributes))
            \o <<" ">> \o Head(attributes)[1] \o <<"=", "\"">>
            \o escape_attributes(Head(attributes)[2]) \o <<"\"">>

\* The loop every method runs over its attributes:
\* attribute_str.push_str(format!(r#" {}="{}""#, attribute.0, escape_attributes(attribute.1))).
RECURSIVE attribute_str(_)
attribute_str(attributes) ==
    IF attributes = <<>> THEN <<>>
    ELSE <<" ">> \o Head(attributes)[1] \o <<"=", "\"">>
            \o escape_attributes(Head(attributes)[2]) \o <<"\"">>
            \o attribute_str(Tail(attributes))

(***************************************************************************)
(* The bytes each method formats, one operator per write! of lib.rs.       *)
(***************************************************************************)
\* writeln!(.., r#"<?xml version="1.0" encoding="UTF-8" standalone="yes"?>"#)
declaration_bytes ==
    <<
        "<", "?", "x", "m", "l", " ", "v", "e", "r", "s", "i", "o", "n", "=", "\"",
        "1", ".", "0", "\"", " ", "e", "n", "c", "o", "d", "i", "n", "g", "=", "\"",
        "U", "T", "F", "-", "8", "\"", " ", "s", "t", "a", "n", "d", "a", "l", "o",
        "n", "e", "=", "\"", "y", "e", "s", "\"", "?", ">"
    >> \o <<"\n">>

\* write!(.., r"<{}{}>", tag, attribute_str)
start_tag_bytes(tag, attributes) ==
    <<"<">> \o tag \o attribute_str(attributes) \o <<">">>

\* write!(.., r"</{}>", tag)
end_tag_bytes(tag) ==
    <<"<", "/">> \o tag \o <<">">>

\* write!(.., r"<{}{}/>", tag, attribute_str)
empty_tag_bytes(tag, attributes) ==
    <<"<">> \o tag \o attribute_str(attributes) \o <<"/", ">">>

\* a plausible slip: the element's text escaped with the attribute rule
data_element_bytes_attr_rule(tag, data, attributes) ==
    <<"<">> \o tag \o attribute_str(attributes) \o <<">">>
        \o escape_attributes(data) \o <<"<", "/">> \o tag \o <<">">>

\* write!(.., r"<{}{}>{}</{}>", tag, attribute_str, escape_data(data), tag)
data_element_bytes(tag, data, attributes) ==
    <<"<">> \o tag \o attribute_str(attributes) \o <<">">>
        \o escape_data(data) \o <<"<", "/">> \o tag \o <<">">>

\* write!(.., r#"<c{} t="s"><v>{}</v></c>"#, attribute_str, index)
string_element_bytes(index, attributes) ==
    <<"<", "c">> \o attribute_str(attributes)
        \o <<" ", "t", "=", "\"", "s", "\"", ">", "<", "v", ">">>
        \o fmt_u32(index) \o <<"<", "/", "v", ">", "<", "/", "c", ">">>

\* a plausible slip (or "repair"): the numeric cell written with no t="s" marker
number_element_bytes_no_marker(number, attributes) ==
    <<"<", "c">> \o attribute_str(attributes)
        \o <<">", "<", "v", ">">>
        \o fmt_f64(number) \o <<"<", "/", "v", ">", "<", "/", "c", ">">>

\* write!(.., r#"<c{} t="s"><v>{}</v></c>"#, attribute_str, number)
number_element_bytes(number, attributes) ==
    <<"<", "c">> \o attribute_str(attributes)
        \o <<" ", "t", "=", "\"", "s", "\"", ">", "<", "v", ">">>
        \o fmt_f64(number) \o <<"<", "/", "v", ">", "<", "/", "c", ">">>

\* a plausible slip: the formula cell copied from the string cell, marker kept
formula_element_bytes_marker(formula, result, attributes) ==
    <<"<", "c">> \o attribute_str(attributes)
        \o <<" ", "t", "=", "\"", "s", "\"", ">", "<", "f", ">">>
        \o escape_data(formula)
        \o <<"<", "/", "f", ">", "<", "v", ">">>
        \o fmt_f64(result) \o <<"<", "/", "v", ">", "<", "/", "c", ">">>

\* write!(.., r#"<c{}><f>{}</f><v>{}</v></c>"#, attribute_str, escape_data(formula), result)
formula_element_bytes(formula, result, attributes) ==
    <<"<", "c">> \o attribute_str(attributes) \o <<">", "<", "f", ">">>
        \o escape_data(formula)
        \o <<"<", "/", "f", ">", "<", "v", ">">>
        \o fmt_f64(result) \o <<"<", "/", "v", ">", "<", "/", "c", ">">>

\* write!(.., r#"<si><t{}>{}</t></si>"#, attribute_str, escape_data(string))
si_element_bytes(string, attributes) ==
    <<"<", "s", "i", ">", "<", "t">> \o attribute_str(attributes) \o <<">">>
        \o escape_data(string)
        \o <<"<", "/", "t", ">", "<", "/", "s", "i", ">">>

\* a plausible slip: the rich string escaped like the plain one
rich_si_element_bytes_escaped(string) ==
    <<"<", "s", "i", ">">> \o escape_data(string) \o <<"<", "/", "s", "i", ">">>

\* write!(.., r#"<si>{}</si>"#, string)
rich_si_element_bytes(string) ==
    <<"<", "s", "i", ">">> \o string \o <<"<", "/", "s", "i", ">">>

(***************************************************************************)
(* Writing to the file.                                                    *)
(***************************************************************************)
\* a plausible slip: a separator written before every fragment but the first
write_fmt_separated(file, bytes, flt) ==
    LET out == IF file = <<>> THEN bytes ELSE <<"\n">> \o bytes IN
    IF flt = NoFault THEN [file |-> file \o out, ok |-> TRUE]
    ELSE [file |-> file \o SubSeq(out, 1, flt), ok |-> FALSE]

\* a plausible slip: a failed write started over, the bytes written again
write_fmt_retry(file, bytes, flt) ==
    IF flt = NoFault THEN [file |-> file \o bytes, ok |-> TRUE]
    ELSE [file |-> file \o SubSeq(bytes, 1, flt) \o bytes, ok |-> TRUE]

\* Write::write_fmt on &File, which write! and writeln! call: the formatted
\* bytes go to the file's end piece by piece, unbuffered.  The environment
\* decides whether a write fails: with flt = NoFault every byte is accepted
\* and the result is Ok(()); otherwise the file accepts flt bytes, the next
\* write returns an error, nothing more is written and the result is Err.
write_fmt(file, bytes, flt) ==
    IF flt = NoFault THEN [file |-> file \o bytes, ok |-> TRUE]
    ELSE [file |-> file \o SubSeq(bytes, 1, flt), ok |-> FALSE]

\* the faults the environment can inject while `bytes` are written: an error
\* can only come from a write, and a write is only made while bytes remain
Faults(bytes) == {NoFault} \cup (0 .. Len(bytes) - 1)

\* a plausible slip: the io::Result dropped (let _ = write!(..)), the call returns
expect_ignored(result) == "ok"

\* Result::expect("Couldn't write to file"): () for Ok, a panic for Err.
expect(result) == IF result.ok THEN "ok" ELSE "panic"

(***************************************************************************)
(* The arguments the callers pass.                                         *)
(***************************************************************************)
\* tag names: an ordinary one, and one with a character an escaper would touch
Tags == {<<"f", "o", "o">>, <<"a", "&">>}

\* (name, value) pairs: a repeated name, values with every escaped character
AttrPairs ==
    { <<(<<"s", "p", "a", "n">>), (<<"8">>)>>,
      <<(<<"s", "p", "a", "n">>), (<<"\"", "<">>)>>,
      <<(<<"b", "&">>), (<<"&", "\n", ">">>)>> }

AttrLists == StringsUpTo(AttrPairs, MaxAttrs)

TextChars == {"&", "<", ">", "\"", "\n", "x"}

Texts == StringsUpTo(TextChars, MaxText)

Indexes == (0 .. MaxIndex) \cup {99}

\* whole numbers, and 1.5 and -2
Numbers ==
    {F64Of(n) : n \in Indexes}
        \cup { [neg |-> FALSE, int |-> 1, frac |-> <<"5">>],
               [neg |-> TRUE, int |-> 2, frac |-> <<>>] }

\* the characters of the strings handed to the escaping functions alone
EscChars == {"&", "\"", "<", ">", "\n", "\t", "\r", "a", ";"}

\* the arguments of the calls of a sequence of calls on one writer
SeqAttrLists ==
    { <<>>, << <<(<<"s", "p", "a", "n">>), (<<"\"", "<">>)>> >> }

SeqTexts == { <<"&", "\"">> }

SeqIndexes == {7}

SeqNumbers == {F64Of(99)}

(***************************************************************************)
(* The writer, lib.rs 38-272.                                              *)
(***************************************************************************)
\* the record of one call in the log: the method and its arguments
Call(op, tag, text, attributes, index, number) ==
    [op |-> op, tag |-> tag, text |-> text, attributes |-> attributes,
     index |-> index, number |-> number]

\* what every method does with the bytes it has formatted:
\* write!(&mut self.xmlfile, ..).expect("Couldn't write to file")
Perform(call, bytes, flt) ==
    LET result == write_fmt(sink, bytes, flt) IN
    /\ sink' = result.file
    /\ outcome' = expect(result)
    /\ before' = sink
    /\ fault' = flt
    /\ log' = Append(log, call)
    /\ UNCHANGED escvars

\* XMLWriter::new(&xmlfile) on a file just created (tempfile(), File::create)
New ==
    /\ sink' = <<>>
    /\ outcome' = "none"
    /\ before' = <<>>
    /\ fault' = NoFault
    /\ log' = <<>>
    /\ UNCHANGED escvars

xml_declaration(flt) ==
    Perform(Call("xml_declaration", <<>>, <<>>, <<>>, 0, F64Of(0)),
            declaration_bytes, flt)

xml_start_tag(tag, attributes, flt) ==
    Perform(Call("xml_start_tag", tag, <<>>, attributes, 0, F64Of(0)),
            start_tag_bytes(tag, attributes), flt)

xml_end_tag(tag, flt) ==
    Perform(Call("xml_end_tag", tag, <<>>, <<>>, 0, F64Of(0)),
            end_tag_bytes(tag), flt)

xml_empty_tag(tag, attributes, flt) ==
    Perform(Call("xml_empty_tag", tag, <<>>, attributes, 0, F64Of(0)),
            empty_tag_bytes(tag, attributes), flt)

xml_data_element(tag, data, attributes, flt) ==
    Perform(Call("xml_data_element", tag, data, attributes, 0, F64Of(0)),
            data_element_bytes(tag, data, attributes), flt)

xml_string_element(index, attributes, flt) ==
    Perform(Call("xml_string_element", <<>>, <<>>, attributes, index, F64Of(0)),
            string_element_bytes(index, attributes), flt)

xml_number_element(number, attributes, flt) ==
    Perform(Call("xml_number_element", <<>>, <<>>, attributes, 0, number),
            number_element_bytes(number, attributes), flt)

xml_formula_element(formula, result, attributes, flt) ==
    Perform(Call("xml_formula_element", <<>>, formula, attributes, 0, result),
            formula_element_bytes(formula, result, attributes), flt)

xml_si_element(string, attributes, flt) ==
    Perform(Call("xml_si_element", <<>>, string, attributes, 0, F64Of(0)),
            si_element_bytes(string, attributes), flt)

xml_rich_si_element(string, flt) ==
    Perform(Call("xml_rich_si_element", <<>>, string, <<>>, 0, F64Of(0)),
            rich_si_element_bytes(string), flt)

(***************************************************************************)
(* Spec: sequences of calls on one writer, with write faults.              *)
(***************************************************************************)
Init ==
    /\ sink = <<>>
    /\ outcome = "none"
    /\ before = <<>>
    /\ fault = NoFault
    /\ log = <<>>
    /\ esc_fn = "none"
    /\ esc_in = <<>>
    /\ esc_out = <<>>

\* a panic unwinds the caller: no further call is made on that writer
Alive == outcome # "panic" /\ Len(log) < MaxCalls

Next ==
    \/ New
    \/ Alive /\ \E flt \in Faults(declaration_bytes) : xml_declaration(flt)
    \/ Alive /\ \E tag \in Tags, attributes \in SeqAttrLists :
            \E flt \in Faults(start_tag_bytes(tag, attributes)) :
                xml_start_tag(tag, attributes, flt)
    \/ Alive /\ \E tag \in Tags :
            \E flt \in Faults(end_tag_bytes(tag)) : xml_end_tag(tag, flt)
    \/ Alive /\ \E tag \in Tags, attributes \in SeqAttrLists :
            \E flt \in Faults(empty_tag_bytes(tag, attributes)) :
                xml_empty_tag(tag, attributes, flt)
    \/ Alive /\ \E tag \in Tags, data \in SeqTexts, attributes \in SeqAttrLists :
            \E flt \in Faults(data_element_bytes(tag, data, attributes)) :
                xml_data_element(tag, data, attributes, flt)
    \/ Alive /\ \E index \in SeqIndexes, attributes \in SeqAttrLists :
            \E flt \in Faults(string_element_bytes(index, attributes)) :
                xml_string_element(index, attributes, flt)
    \/ Alive /\ \E number \in SeqNumbers, attributes \in SeqAttrLists :
            \E flt \in Faults(number_element_bytes(number, attributes)) :
                xml_number_element(number, attributes, flt)
    \/ Alive /\ \E formula \in SeqTexts, result \in SeqNumbers,
                  attributes \in SeqAttrLists :
            \E flt \in Faults(formula_element_bytes(formula, result, attributes)) :
                xml_formula_element(formula, result, attributes, flt)
    \/ Alive /\ \E string \in SeqTexts, attributes \in SeqAttrLists :
            \E flt \in Faults(si_element_bytes(string, attributes)) :
                xml_si_element(string, attributes, flt)
    \/ Alive /\ \E string \in SeqTexts :
            \E flt \in Faults(rich_si_element_bytes(string)) :
                xml_rich_si_element(string, flt)

Spec == Init /\ [][Next]_vars

(***************************************************************************)
(* SpecCall: one call on a new writer, every write accepted, the arguments *)
(* drawn from all the strings and lists within the bounds.                 *)
(***************************************************************************)
Fresh == log = <<>>

NextCall ==
    \/ Fresh /\ xml_declaration(NoFault)
    \/ Fresh /\ \E tag \in Tags, attributes \in AttrLists :
            xml_start_tag(tag, attributes, NoFault)
    \/ Fresh /\ \E tag \in Tags : xml_end_tag(tag, NoFault)
    \/ Fresh /\ \E tag \in Tags, attributes \in AttrLists :
            xml_empty_tag(tag, attributes, NoFault)
    \/ Fresh /\ \E tag \in Tags, data \in Texts, attributes \in AttrLists :
            xml_data_element(tag, data, attributes, NoFault)
    \/ Fresh /\ \E index \in Indexes, attributes \in AttrLists :
            xml_string_element(index, attributes, NoFault)
    \/ Fresh /\ \E number \in Numbers, attributes \in AttrLists :
            xml_number_element(number, attributes, NoFault)
    \/ Fresh /\ \E formula \in Texts, result \in Numbers, attributes \in AttrLists :
            xml_formula_element(formula, result, attributes, NoFault)
    \/ Fresh /\ \E string \in Texts, attributes \in AttrLists :
            xml_si_element(string, attributes, NoFault)
    \/ Fresh /\ \E string \in Texts : xml_rich_si_element(string, NoFault)

SpecCall == Init /\ [][NextCall]_vars

(***************************************************************************)
(* SpecEsc: the escaping functions applied to every string within MaxLen.  *)
(***************************************************************************)
InitEsc ==
    /\ sink = <<>>
    /\ outcome = "none"
    /\ before = <<>>
    /\ fault = NoFault
    /\ log = <<>>
    /\ esc_fn = "none"
    /\ esc_in \in StringsUpTo(EscChars, MaxLen)
    /\ esc_out = <<>>

call_escape_attributes ==
    /\ esc_fn = "none"
    /\ esc_fn' = "escape_attributes"
    /\ esc_out' = escape_attributes(esc_in)
    /\ UNCHANGED <<esc_in, wvars>>

call_escape_data ==
    /\ esc_fn = "none"
    /\ esc_fn' = "escape_data"
    /\ esc_out' = escape_data(esc_in)
    /\ UNCHANGED <<esc_in, wvars>>

NextEsc == call_escape_attributes \/ call_escape_data

SpecEsc == InitEsc /\ [][NextEsc]_vars

(***************************************************************************)
(* What the claims speak of.                                               *)
(***************************************************************************)
\* the five entities of the attribute rule and the three of the content rule
AttrRule(c) ==
    CASE c = "&" -> <<"&", "a", "m", "p", ";">>
      [] c = "\"" -> <<"&", "q", "u", "o", "t", ";">>
      [] c = "<" -> <<"&", "l", "t", ";">>
      [] c = ">" -> <<"&", "g", "t", ";">>
      [] c = "\n" -> <<"&", "#", "x", "A", ";">>
      [] OTHER -> <<c>>

ContentRule(c) ==
    CASE c = "&" -> <<"&", "a", "m", "p", ";">>
      [] c = "<" -> <<"&", "l", "t", ";">>
      [] c = ">" -> <<"&", "g", "t", ";">>
      [] OTHER -> <<c>>

AttrEntities == {AttrRule(c) : c \in {"&", "\"", "<", ">", "\n"}}

ContentEntities == {ContentRule(c) : c \in {"&", "<", ">"}}

\* the single-pass substitutions: each character of s replaced on its own
RECURSIVE SubstituteAttr(_)
SubstituteAttr(s) ==
    IF s = <<>> THEN <<>> ELSE AttrRule(Head(s)) \o SubstituteAttr(Tail(s))

RECURSIVE SubstituteContent(_)
SubstituteContent(s) ==
    IF s = <<>> THEN <<>> ELSE ContentRule(Head(s)) \o SubstituteContent(Tail(s))

Contains(s, chars) == \E i \in 1 .. Len(s) : s[i] \in chars

\* one of `entities` begins at position i of s
EntityAt(s, i, entities) ==
    \E e \in entities :
        /\ i + Len(e) - 1 <= Len(s)
        /\ SubSeq(s, i, i + Len(e) - 1) = e

\* ' ' + attr + '="' + escaped value + '"' for each pair, in the list's order
RECURSIVE SerializedAttributes(_)
SerializedAttributes(attributes) ==
    IF attributes = <<>> THEN <<>>
    ELSE LET n == Len(attributes) IN
         SerializedAttributes(SubSeq(attributes, 1, n - 1))
            \o <<" ">> \o attributes[n][1] \o <<"=", "\"">>
            \o SubstituteAttr(attributes[n][2]) \o <<"\"">>

DigitValue(c) ==
    CASE c = "0" -> 0 [] c = "1" -> 1 [] c = "2" -> 2 [] c = "3" -> 3
      [] c = "4" -> 4 [] c = "5" -> 5 [] c = "6" -> 6 [] c = "7" -> 7
      [] c = "8" -> 8 [] c = "9" -> 9 [] OTHER -> -1

RECURSIVE DecimalValue(_)
DecimalValue(s) ==
    IF s = <<>> THEN 0
    ELSE 10 * DecimalValue(SubSeq(s, 1, Len(s) - 1)) + DigitValue(s[Len(s)])

\* s is the decimal text of the natural number n: digits only, no leading zero
IsDecimalOf(s, n) ==
    /\ Len(s) >= 1
    /\ \A i \in 1 .. Len(s) : DigitValue(s[i]) >= 0
    /\ Len(s) > 1 => s[1] # "0"
    /\ DecimalValue(s) = n

\* s is the decimal text of the number x: sign, whole part, point and fraction
IsDecimalOfNumber(s, x) ==
    LET sign == IF x.neg THEN <<"-">> ELSE <<>>
        tail == IF x.frac = <<>> THEN <<>> ELSE <<".">> \o x.frac
        whole == SubSeq(s, Len(sign) + 1, Len(s) - Len(tail))
    IN  /\ s = sign \o whole \o tail
        /\ IsDecimalOf(whole, x.int)

IsWhole(x) == ~x.neg /\ x.frac = <<>>

\* the last call made, and the bytes the file gained in it
LastCall == log[Len(log)]

Written == SubSeq(sink, Len(before) + 1, Len(sink))

Returned(op) == log # <<>> /\ LastCall.op = op /\ outcome = "ok"

\* the bytes a call leaves in a new, empty file when every write is accepted
FragmentOf(call) ==
    LET bytes ==
        CASE call.op = "xml_declaration" -> declaration_bytes
          [] call.op = "xml_start_tag" -> start_tag_bytes(call.tag, call.attributes)
          [] call.op = "xml_end_tag" -> end_tag_bytes(call.tag)
          [] call.op = "xml_empty_tag" -> empty_tag_bytes(call.tag, call.attributes)
          [] call.op = "xml_data_element" ->
                data_element_bytes(call.tag, call.text, call.attributes)
          [] call.op = "xml_string_element" ->
                string_element_bytes(call.index, call.attributes)
          [] call.op = "xml_number_element" ->
                number_element_bytes(call.number, call.attributes)
          [] call.op = "xml_formula_element" ->
                formula_element_bytes(call.text, call.number, call.attributes)
          [] call.op = "xml_si_element" -> si_element_bytes(call.text, call.attributes)
          [] call.op = "xml_rich_si_element" -> rich_si_element_bytes(call.text)
    IN  write_fmt(<<>>, bytes, NoFault).file

RECURSIVE Fragments(_)
Fragments(calls) ==
    IF calls = <<>> THEN <<>>
    ELSE Fragments(SubSeq(calls, 1, Len(calls) - 1)) \o FragmentOf(calls[Len(calls)])

(***************************************************************************)
(* The claims.                                                             *)
(***************************************************************************)

\* C1: escape_attributes(s) is the single-pass per-character substitution of s
\* (& " < > newline to their entities, every other character copied): the
\* result holds no '"', '<', '>' or newline, and every '&' in it begins one of
\* the five entities.
C1_EscapeAttributesSinglePass ==
    esc_fn = "escape_attributes" =>
        /\ esc_out = SubstituteAttr(esc_in)
        /\ ~Contains(esc_out, {"\"", "<", ">", "\n"})
        /\ \A i \in 1 .. Len(esc_out) :
                esc_out[i] = "&" => EntityAt(esc_out, i, AttrEntities)

C1_Witness ==
    /\ esc_fn = "escape_attributes"
    /\ esc_in = <<"<", "&", "\n">>
    /\ esc_out = <<"&", "l", "t", ";", "&", "a", "m", "p", ";", "&", "#", "x", "A", ";">>

\* C2: escape_data(s) holds no '<' or '>', every '&' in it begins &amp; &lt; or
\* &gt;, every '"' and newline of s stands unchanged at its corresponding
\* position, and a string with no '&', '<' or '>' is returned unchanged.
C2_EscapeDataKeepsQuoteAndNewline ==
    esc_fn = "escape_data" =>
        /\ esc_out = SubstituteContent(esc_in)
        /\ ~Contains(esc_out, {"<", ">"})
        /\ \A i \in 1 .. Len(esc_out) :
                esc_out[i] = "&" => EntityAt(esc_out, i, ContentEntities)
        /\ \A i \in 1 .. Len(esc_in) :
                esc_in[i] \in {"\"", "\n"} =>
                    LET at == Len(SubstituteContent(SubSeq(esc_in, 1, i - 1))) + 1
                    IN  at <= Len(esc_out) /\ esc_out[at] = esc_in[i]
        /\ ~Contains(esc_in, {"&", "<", ">"}) => esc_out = esc_in

C2_Witness ==
    /\ esc_fn = "escape_data"
    /\ esc_in = <<"&", "\"", "\n">>
    /\ esc_out = <<"&", "a", "m", "p", ";", "\"", "\n">>

\* C3: every method returns () when its write succeeds, having written its
\* whole fragment, and when a write to the file fails the call does not
\* return normally: the failure reaches the caller (as a panic), never
\* swallowed and never reported as success.
C3_WriteFailureSurfaced ==
    log # <<>> =>
        /\ fault = NoFault =>
                outcome = "ok" /\ sink = before \o FragmentOf(LastCall)
        /\ fault # NoFault => outcome = "panic"
        /\ outcome \in {"ok", "panic"}

C3_Witness ==
    /\ Len(log) = 2
    /\ LastCall.op = "xml_data_element"
    /\ fault = 3
    /\ outcome = "panic"

\* C4: the writer keeps no state and validates no nesting: every method is
\* accepted in every state, and after any sequence of successful calls the
\* file holds the concatenation, in call order, of the fragments each call
\* leaves in an empty file, nothing between or after them.
C4_StatelessConcatenation ==
    /\ outcome # "panic" => sink = Fragments(log)
    /\ Alive =>
        /\ ENABLED xml_declaration(NoFault)
        /\ \A tag \in Tags :
            /\ ENABLED xml_end_tag(tag, NoFault)
            /\ ENABLED xml_start_tag(tag, <<>>, NoFault)
            /\ ENABLED xml_empty_tag(tag, <<>>, NoFault)
        /\ \A string \in SeqTexts : ENABLED xml_rich_si_element(string, NoFault)

\* an end tag with no start tag before it, then a start tag never closed
C4_Witness ==
    /\ Len(log) = 2
    /\ log[1].op = "xml_end_tag"
    /\ log[2].op = "xml_start_tag"
    /\ log[1].tag # log[2].tag
    /\ outcome = "ok"
    /\ sink = <<"<", "/", "f", "o", "o", ">", "<", "a", "&", ">">>

\* C5: start_tag(name, attributes) writes '<' + name, then ' ' + attr + '="' +
\* escaped value + '"' for each pair in the supplied order, duplicates kept,
\* name and attr verbatim, then '>'; empty_tag writes the same closed by '/>'.
C5_StartAndEmptyTagBytes ==
    /\ Returned("xml_start_tag") =>
            sink = before \o <<"<">> \o LastCall.tag
                    \o SerializedAttributes(LastCall.attributes) \o <<">">>
    /\ Returned("xml_empty_tag") =>
            sink = before \o <<"<">> \o LastCall.tag
                    \o SerializedAttributes(LastCall.attributes) \o <<"/", ">">>

\* two attributes of the same name, the second value escaped
C5_Witness ==
    /\ Returned("xml_start_tag")
    /\ sink = <<"<", "f", "o", "o",
                " ", "s", "p", "a", "n", "=", "\"", "8", "\"",
                " ", "s", "p", "a", "n", "=", "\"",
                "&", "q", "u", "o", "t", ";", "&", "l", "t", ";", "\"", ">">>

\* C6: one data_element(name, text, attributes) leaves the bytes that
\* start_tag(name, attributes), a write of escape_data(text) and end_tag(name)
\* leave one after the other: the attribute rule for the values, the content
\* rule for the text.
C6_DataElementIsStartTextEnd ==
    Returned("xml_data_element") =>
        LET c == LastCall
            one == write_fmt(before, start_tag_bytes(c.tag, c.attributes), NoFault).file
            two == write_fmt(one, escape_data(c.text), NoFault).file
            three == write_fmt(two, end_tag_bytes(c.tag), NoFault).file
        IN  /\ sink = three
            /\ sink = before \o <<"<">> \o c.tag \o SerializedAttributes(c.attributes)
                        \o <<">">> \o SubstituteContent(c.text)
                        \o <<"<", "/">> \o c.tag \o <<">">>

\* a '"' in the attribute value and a '"' in the text
C6_Witness ==
    /\ Returned("xml_data_element")
    /\ sink = <<"<", "f", "o", "o",
                " ", "s", "p", "a", "n", "=", "\"",
                "&", "q", "u", "o", "t", ";", "&", "l", "t", ";", "\"", ">",
                "\"", "x", "<", "/", "f", "o", "o", ">">>

\* C7: string_element and number_element have one wire shape: '<c' +
\* attributes + ' t="s"><v>' + decimal text + '</v></c>', the marker after the
\* caller's attributes; for a whole number n, number_element(n as f64) writes
\* the bytes string_element(n) writes.
C7_NumberElementShapedAsStringElement ==
    LET c == LastCall
        head == <<"<", "c">> \o SerializedAttributes(c.attributes)
                    \o <<" ", "t", "=", "\"", "s", "\"", ">", "<", "v", ">">>
        tail == <<"<", "/", "v", ">", "<", "/", "c", ">">>
        value == SubSeq(Written, Len(head) + 1, Len(Written) - Len(tail))
    IN  /\ Returned("xml_string_element") =>
            /\ Written = head \o value \o tail
            /\ IsDecimalOf(value, c.index)
        /\ Returned("xml_number_element") =>
            /\ Written = head \o value \o tail
            /\ IsDecimalOfNumber(value, c.number)
            /\ IsWhole(c.number) =>
                sink = write_fmt(before,
                            string_element_bytes(c.number.int, c.attributes),
                            NoFault).file

\* number_element(99.0, [("span","8")]), the bytes of test_xml_string_element
C7_Witness ==
    /\ Returned("xml_number_element")
    /\ LastCall.number = F64Of(99)
    /\ sink = <<"<", "c", " ", "s", "p", "a", "n", "=", "\"", "8", "\"",
                " ", "t", "=", "\"", "s", "\"", ">", "<", "v", ">", "9", "9",
                "<", "/", "v", ">", "<", "/", "c", ">">>

\* C8: formula_element(formula, result, attributes) writes '<c' + attributes +
\* '><f>' + content-escaped formula + '</f><v>' + decimal text of result +
\* '</v></c>', with no t="s" marker on <c>.
C8_FormulaElementBytes ==
    Returned("xml_formula_element") =>
        LET c == LastCall
            head == <<"<", "c">> \o SerializedAttributes(c.attributes)
                        \o <<">", "<", "f", ">">> \o SubstituteContent(c.text)
                        \o <<"<", "/", "f", ">", "<", "v", ">">>
            tail == <<"<", "/", "v", ">", "<", "/", "c", ">">>
            value == SubSeq(Written, Len(head) + 1, Len(Written) - Len(tail))
        IN  /\ Written = head \o value \o tail
            /\ IsDecimalOfNumber(value, c.number)

\* a formula with a '"' and a newline, the result 3
C8_Witness ==
    /\ Returned("xml_formula_element")
    /\ LastCall.attributes = <<>>
    /\ sink = <<"<", "c", ">", "<", "f", ">", "\"", "\n", "<", "/", "f", ">",
                "<", "v", ">", "3", "<", "/", "v", ">", "<", "/", "c", ">">>

\* C9: rich_si_element(markup) writes '<si>' + markup + '</si>' byte for byte;
\* si_element(text, attributes) writes '<si><t' + attributes + '>' +
\* content-escaped text + '</t></si>'; with no attributes, what stands inside
\* <t> differs from what the rich writer puts inside <si> exactly when the
\* string holds '&', '<' or '>'.
C9_RichSiVerbatimSiEscaped ==
    /\ Returned("xml_rich_si_element") =>
            sink = before \o <<"<", "s", "i", ">">> \o LastCall.text
                    \o <<"<", "/", "s", "i", ">">>
    /\ Returned("xml_si_element") =>
        /\ sink = before \o <<"<", "s", "i", ">", "<", "t">>
                    \o SerializedAttributes(LastCall.attributes) \o <<">">>
                    \o SubstituteContent(LastCall.text)
                    \o <<"<", "/", "t", ">", "<", "/", "s", "i", ">">>
        /\ LastCall.attributes = <<>> =>
            LET rich == rich_si_element_bytes(LastCall.text)
                inRich == SubSeq(rich, 5, Len(rich) - 5)
                inPlain == SubSeq(Written, 8, Len(Written) - 9)
            IN  (inPlain # inRich) <=> Contains(LastCall.text, {"&", "<", ">"})

\* markup with '&' and '<' passed through
C9_Witness ==
    /\ Returned("xml_rich_si_element")
    /\ sink = <<"<", "s", "i", ">", "&", "<", "<", "/", "s", "i", ">">>

\* C10 as stated: when a write fails during a call, the file holds none of
\* that call's fragment (its content is what it was before the call).
C10_FailedCallLeavesNothing ==
    fault # NoFault => sink = before

\* C10 amended: when a write fails during a call the call panics and is not
\* retried; the file holds its content from before the call (the complete
\* fragments of the earlier calls) followed by a strict prefix, empty or not,
\* of that call's fragment: the bytes accepted before the failing write.
C10_FailedCallLeavesStrictPrefix ==
    (log # <<>> /\ fault # NoFault) =>
        /\ outcome = "panic"
        /\ before = Fragments(SubSeq(log, 1, Len(log) - 1))
        /\ fault < Len(FragmentOf(LastCall))
        /\ sink = before \o SubSeq(FragmentOf(LastCall), 1, fault)

\* a data element cut after its start tag's name
C10_Witness ==
    /\ Len(log) = 2
    /\ log[1].op = "xml_declaration"
    /\ log[2].op = "xml_data_element"
    /\ outcome = "panic"
    /\ sink = declaration_bytes \o <<"<", "f", "o", "o">>

====
